---- MODULE Spec2Model ----
(***************************************************************************)
(* Model of policy_agent.py: the PolicyAgent main thread (tier setup,      *)
(* cache load, worker start, read_updates dispatcher) and the three        *)
(* _manage_resource worker threads (list, then watch) that feed the        *)
(* bounded _event_queue.                                                   *)
(***************************************************************************)
EXTENDS Integers, Sequences, FiniteSets, TLC

\* ---------------------------------------------------------------- bounds
MaxRequests == 3        \* API requests (list + watch) issued over a run
MaxUpdates == 3         \* updates enqueued over a run
MaxItems == 2           \* objects in one list response
MaxRV == 2              \* largest resourceVersion the API hands out
MAX_QUEUE_SIZE == 2     \* capacity of _event_queue
QUEUE_PUT_TIMEOUT == 1  \* time units a put waits on a full queue

\* ------------------------------------------------------------- constants
TYPE_ADDED == "ADDED"
TYPE_MODIFIED == "MODIFIED"
TYPE_DELETED == "DELETED"
TYPE_ERROR == "ERROR"
RESOURCE_TYPE_NETWORK_POLICY == "NetworkPolicy"
RESOURCE_TYPE_NAMESPACE == "Namespace"
RESOURCE_TYPE_POD == "Pod"

\* Python's None for a string-valued field, and for a resourceVersion.
None == "None"
NoVersion == 0

\* start_workers: the resource types, in the order their threads start.
WorkerOrder ==
    <<RESOURCE_TYPE_NETWORK_POLICY, RESOURCE_TYPE_NAMESPACE, RESOURCE_TYPE_POD>>

Resources == {WorkerOrder[i] : i \in 1..Len(WorkerOrder)}

\* The handler table built by __init__ through add_handler.
InitHandlers ==
    [k \in {<<RESOURCE_TYPE_NETWORK_POLICY, TYPE_ADDED>>,
            <<RESOURCE_TYPE_NETWORK_POLICY, TYPE_DELETED>>,
            <<RESOURCE_TYPE_NAMESPACE, TYPE_ADDED>>,
            <<RESOURCE_TYPE_NAMESPACE, TYPE_DELETED>>,
            <<RESOURCE_TYPE_POD, TYPE_ADDED>>,
            <<RESOURCE_TYPE_POD, TYPE_DELETED>>} |->
        CASE k = <<RESOURCE_TYPE_NETWORK_POLICY, TYPE_ADDED>> -> "add_update_network_policy"
          [] k = <<RESOURCE_TYPE_NETWORK_POLICY, TYPE_DELETED>> -> "delete_network_policy"
          [] k = <<RESOURCE_TYPE_NAMESPACE, TYPE_ADDED>> -> "add_update_namespace"
          [] k = <<RESOURCE_TYPE_NAMESPACE, TYPE_DELETED>> -> "delete_namespace"
          [] k = <<RESOURCE_TYPE_POD, TYPE_ADDED>> -> "add_update_pod"
          [] k = <<RESOURCE_TYPE_POD, TYPE_DELETED>> -> "delete_pod"]

\* _manage_resource without the except clause for Queue.Full.
CaughtByManageNoFull == {"ConnectionError", "HTTPError", "KubernetesApiError"}

\* The exceptions _manage_resource has an except clause for.
CaughtByManage == {"ConnectionError", "HTTPError", "KubernetesApiError", "Full"}

\* ------------------------------------------------------------------ data
\* A resource document of the API.  hasMeta = FALSE: no "metadata" member;
\* name / namespace / kind = None and rv = NoVersion: that member is absent.
Obj(kind, hasMeta, name, namespace, rv) ==
    [kind |-> kind, hasMeta |-> hasMeta, name |-> name,
     namespace |-> namespace, rv |-> rv]

EmptyObject == Obj(None, FALSE, None, None, NoVersion)

\* Namespaces are cluster-scoped: their metadata carries no namespace.
NamespaceOf(r) == IF r = RESOURCE_TYPE_NAMESPACE THEN None ELSE "ns"

\* The objects of resource type r the API may list, in its order; the second
\* has no metadata.name.
Listable(r) ==
    <<Obj(r, TRUE, "a", NamespaceOf(r), NoVersion),
      Obj(r, TRUE, None, NamespaceOf(r), NoVersion),
      Obj(r, TRUE, "b", NamespaceOf(r), NoVersion),
      Obj(r, TRUE, "c", NamespaceOf(r), NoVersion)>>

\* A list response: a transport failure, or a status with a body.
\*   kind "ConnectionError" / "HTTPError": _api_get raised it
\*   kind "response": status, whether the body is JSON, the items, and
\*   metadata.resourceVersion (NoVersion: absent)
\* A 200 carries the JSON list document; the body of another status need
\* not be JSON.
ListResponse(kind, status, json, items, rv) ==
    [kind |-> kind, status |-> status, json |-> json, items |-> items,
     rv |-> rv]

ListResponses(r) ==
    {ListResponse(k, 0, FALSE, <<>>, NoVersion) :
        k \in {"ConnectionError", "HTTPError"}}
    \cup {ListResponse("response", 500, j, <<>>, NoVersion) : j \in BOOLEAN}
    \cup {ListResponse("response", 200, TRUE, SubSeq(Listable(r), 1, n), 1) :
            n \in 0..MaxItems}
    \cup {ListResponse("response", 200, TRUE, <<>>, NoVersion)}

\* A line of a watch stream: blank (keep-alive), not JSON, or an envelope
\* with an optional "type" and an optional "object".
Line(tag, type, hasObject, object) ==
    [tag |-> tag, type |-> type, hasObject |-> hasObject, object |-> object]

NoLine == Line("blank", None, FALSE, EmptyObject)

\* The API hands out resourceVersions in order: the event that follows
\* cursor cur carries the next version.
NextVersions(cur) == {cur + 1} \cap 1..MaxRV

GoodObjects(r, cur) ==
    {Obj(r, TRUE, "a", NamespaceOf(r), v) : v \in NextVersions(cur)}

\* Objects that carry another kind, or lack a metadata.resourceVersion, or
\* lack metadata altogether.
OddObjects(r, cur) ==
    {Obj("Other", TRUE, "a", NamespaceOf(r), v) : v \in NextVersions(cur)}
    \cup {Obj(r, TRUE, "a", NamespaceOf(r), NoVersion)}
    \cup {Obj(r, FALSE, None, None, NoVersion)}

Lines(r, cur) ==
    {Line("blank", None, FALSE, EmptyObject),
     Line("garbage", None, FALSE, EmptyObject),
     Line("envelope", None, TRUE, EmptyObject),
     Line("envelope", TYPE_ERROR, TRUE, EmptyObject),
     Line("envelope", TYPE_ADDED, FALSE, EmptyObject)}
    \cup {Line("envelope", t, TRUE, o) :
            t \in {TYPE_ADDED, TYPE_MODIFIED, TYPE_DELETED},
            o \in GoodObjects(r, cur)}
    \cup {Line("envelope", TYPE_ADDED, TRUE, o) : o \in OddObjects(r, cur)}

\* What the API answers to a watch request: an exception of _api_get, a
\* non-200 status, or a 200 with an open stream.
WatchResponses == {"ConnectionError", "HTTPError", "status", "stream"}

\* The cache: workload id -> labels, for the workloads it knows.
WorkloadIds == {"w1"}
LabelSets == {"l1"}
Caches == UNION {[W -> LabelSets] : W \in SUBSET WorkloadIds}

\* What a handler may do to the cache it is given, and how it may end.
HandlerEffects == Caches
HandlerResults == {"ok", "KeyError", "Error"}

\* ------------------------------------------------------- pure functions
\* get_handler without the folding of "modified" into "added".
get_handler_unfolded(table, resource_type, event_type) ==
    LET key == <<resource_type, event_type>>
    IN  IF key \in DOMAIN table THEN table[key] ELSE "KeyError"

\* get_handler falling back on a handler when the key is missing.
get_handler_default(table, resource_type, event_type) ==
    LET kind == IF event_type = TYPE_MODIFIED THEN TYPE_ADDED ELSE event_type
        key == <<resource_type, kind>>
    IN  IF key \in DOMAIN table THEN table[key] ELSE "add_update_pod"

\* get_handler: "modified" is looked up as "added"; a missing key raises
\* KeyError.
get_handler(table, resource_type, event_type) ==
    LET kind == IF event_type = TYPE_MODIFIED THEN TYPE_ADDED ELSE event_type
        key == <<resource_type, kind>>
    IN  IF key \in DOMAIN table THEN table[key] ELSE "KeyError"

\* _process_update reading the name with .get as well.
ResourceKeyLenient(resource) == <<resource.namespace, resource.name>>

\* _process_update, key derivation: resource["metadata"]["name"] raises
\* KeyError when either member is missing; the namespace is read with .get.
ResourceKey(resource) ==
    IF resource.hasMeta /\ resource.name # None
    THEN <<resource.namespace, resource.name>>
    ELSE <<"KeyError">>

\* _api_get that never appends the cursor.
ApiGetQueryBare(version) == [hasVersion |-> FALSE, version |-> NoVersion]

\* _api_get: the cursor is appended as ?resourceVersion= only when it is
\* truthy; the result is the query the request carries.
ApiGetQuery(version) ==
    IF version # NoVersion
    THEN [hasVersion |-> TRUE, version |-> version]
    ELSE [hasVersion |-> FALSE, version |-> NoVersion]

\* _sync_resources up to the enqueue loop: the exception the response
\* leads to, or "ok".
SyncResult(resp) ==
    IF resp.kind # "response" THEN resp.kind
    ELSE IF resp.status # 200
         THEN IF resp.json THEN "KubernetesApiError" ELSE "ValueError"
         ELSE IF ~resp.json THEN "ValueError"
              ELSE "ok"

\* _watch_resource, the status check of the watch response.
WatchResult(resp) ==
    IF resp = "stream" THEN "ok"
    ELSE IF resp = "status" THEN "KubernetesApiError"
    ELSE resp

\* _watch_resource without the check for an envelope of type Error.
LineResultNoErrorCheck(ln) ==
    IF ln.tag = "blank" THEN "skip"
    ELSE IF ln.tag = "garbage" THEN "ValueError"
    ELSE IF ln.type = None THEN "KeyError"
    ELSE IF ~ln.hasObject THEN "KeyError"
    ELSE IF ln.object.kind = None THEN "KeyError"
    ELSE "put"

\* _watch_resource, one line up to the put: "skip" for a keep-alive, the
\* exception the line raises, or "put".
LineResult(ln) ==
    IF ln.tag = "blank" THEN "skip"
    ELSE IF ln.tag = "garbage" THEN "ValueError"
    ELSE IF ln.type = None THEN "KeyError"
    ELSE IF ln.type = TYPE_ERROR THEN "KubernetesApiError"
    ELSE IF ~ln.hasObject THEN "KeyError"
    ELSE IF ln.object.kind = None THEN "KeyError"
    ELSE "put"

\* _watch_resource after the put: parsed["object"]["metadata"]
\* ["resourceVersion"], NoVersion standing for the KeyError.
NewVersion(object) ==
    IF object.hasMeta THEN object.rv ELSE NoVersion

\* _manage_resource: where the worker is after the finally clause.
AfterCooldown(e) ==
    IF e \in CaughtByManage THEN "sync" ELSE "dead"

\* _watch_resource returning when iter_lines() is exhausted.
AfterStreamEndReturns == "cooldown"

\* _watch_resource: where the worker is when iter_lines() is exhausted.
AfterStreamEnd == "watch"

\* read_updates without its except clause.
DispatcherCatchesNothing(e) == FALSE

\* read_updates / _process_update: both except clauses name KeyError only.
DispatcherCatches(e) == e = "KeyError"

\* Queue.put with room for one update too many.
NotFullOffByOne(q) == Len(q) <= MAX_QUEUE_SIZE

\* Queue.put: there is room while the size is below maxsize.
NotFull(q) == Len(q) < MAX_QUEUE_SIZE

\* Queue.put: a put that found no room raises Full once it has waited the
\* timeout.
TimedOut(w) == w >= QUEUE_PUT_TIMEOUT

\* Queue.put that adds at the end get takes from.
QueuePutFront(q, update) == <<update>> \o q

\* Queue.put on the underlying deque.
QueuePut(q, update) == Append(q, update)

\* Queue.get that leaves the update on the deque.
QueueGetPeek(q) == q

\* Queue.get on the underlying deque.
QueueGet(q) == Tail(q)

\* _sync_resources: the object the enqueue loop is at.
NextResource(items, i) == items[i]

\* _sync_resources leaving the enqueue loop one object early.
SyncDoneEarly(items, i) == i >= Len(items)

\* _sync_resources: the enqueue loop is over.
SyncDone(items, i) == i > Len(items)

\* _manage_resource: the cursor _watch_resource is called with.
WatchFrom(version) == version

\* ---------------------------------------------------------------- state
VARIABLES
    mainpc,            \* main thread: "tier", "load_cache", "start_workers",
                       \*   "read_updates", "exited"
    started,           \* worker threads started so far
    cache,             \* self.cache
    handlers,          \* self._handlers
    event_queue,       \* self._event_queue
    pc,                \* per worker: "idle", "sync", "sync_put", "watch",
                       \*   "stream", "watch_put", "cooldown", "dead"
    resources,         \* per worker: resources of _sync_resources, the
                       \*   items listed this iteration
    idx,               \* per worker: position of the enqueue loop in resources
    list_version,      \* per worker: resource_version of _sync_resources, the
                       \*   version listed this iteration
    resource_version,  \* per worker: resource_version of _watch_resource
    parsed,            \* per worker: the envelope whose put is blocked
    exc,               \* per worker: exception in flight, or "none"
    waited,            \* per worker: time units spent in a blocked put
    iter,              \* per worker: iterations of the while loop begun
    nwatch,            \* per worker: watch requests issued this iteration
    sent,              \* per worker: query of the last watch request
    enq_version,       \* per worker: resourceVersion of the last streamed
                       \*   event it enqueued this iteration
    lastIn,            \* per worker: the input that made its last step fail,
                       \*   or "eof"; "none" otherwise
    nextId,            \* identity of the next enqueued update
    reqs,              \* API requests issued so far
    processed,         \* identities of the updates handed to
                       \*   _process_update, in order
    last               \* what _process_update did with the last update

mainVars == <<mainpc, started, cache, handlers, processed, last>>
localVars == <<resources, idx, list_version, resource_version, parsed, waited,
               nwatch, sent, enq_version>>
vars == <<mainpc, started, cache, handlers, event_queue, pc, resources, idx,
          list_version, resource_version, parsed, exc, waited, iter, nwatch,
          sent, enq_version, lastIn, nextId, reqs, processed, last>>

\* An update on the queue: the (event_type, resource_type, resource) tuple,
\* tagged with its identity and with the worker, iteration, phase and list
\* position that enqueued it.
Update(event_type, resource_type, resource, r, phase) ==
    [event_type |-> event_type, resource_type |-> resource_type,
     resource |-> resource, id |-> nextId, src |-> r, iter |-> iter[r],
     phase |-> phase, k |-> IF phase = "list" THEN idx[r] ELSE 0]

NoLast ==
    [event_type |-> None, resource_type |-> None, key |-> <<>>,
     handler |-> None, outcome |-> "none"]

\* key: the key _process_update derived; handler: the handler it called with
\* that key, or None; outcome: "ok", the exception the handler raised,
\* "malformed" (KeyError on the key) or "nohandler" (KeyError in get_handler).
Last(update, handler, outcome) ==
    [event_type |-> update.event_type, resource_type |-> update.resource_type,
     key |-> ResourceKey(update.resource), handler |-> handler,
     outcome |-> outcome]

Init ==
    /\ mainpc = "tier"
    /\ started = 0
    /\ cache = <<>>
    /\ handlers = InitHandlers
    /\ event_queue = <<>>
    /\ pc = [r \in Resources |-> "idle"]
    /\ resources = [r \in Resources |-> <<>>]
    /\ idx = [r \in Resources |-> 0]
    /\ list_version = [r \in Resources |-> NoVersion]
    /\ resource_version = [r \in Resources |-> NoVersion]
    /\ parsed = [r \in Resources |-> NoLine]
    /\ exc = [r \in Resources |-> "none"]
    /\ waited = [r \in Resources |-> 0]
    /\ iter = [r \in Resources |-> 0]
    /\ nwatch = [r \in Resources |-> 0]
    /\ sent = [r \in Resources |-> ApiGetQuery(NoVersion)]
    /\ enq_version = [r \in Resources |-> NoVersion]
    /\ lastIn = [r \in Resources |-> "none"]
    /\ nextId = 1
    /\ reqs = 0
    /\ processed = <<>>
    /\ last = NoLast

\* The process lives as long as its main thread: the workers are daemons.
Alive == mainpc # "exited"

\* ---------------------------------------------------------- main thread
\* run: set_policy_tier_metadata.
SetTier ==
    /\ mainpc = "tier"
    /\ mainpc' = "load_cache"
    /\ UNCHANGED <<started, cache, handlers, processed, last, event_queue,
                   pc, exc, iter, lastIn, nextId, reqs, localVars>>

\* load_cache: the cache becomes the endpoints the datastore lists.
LoadCache ==
    /\ mainpc = "load_cache"
    /\ \E c \in Caches : cache' = c
    /\ mainpc' = "start_workers"
    /\ UNCHANGED <<started, handlers, processed, last, event_queue, pc, exc,
                   iter, lastIn, nextId, reqs, localVars>>

\* start_workers called before load_cache has returned.
StartWorkerEarly ==
    /\ mainpc \in {"load_cache", "start_workers"}
    /\ started < Len(WorkerOrder)
    /\ started' = started + 1
    /\ pc' = [pc EXCEPT ![WorkerOrder[started + 1]] = "sync"]
    /\ mainpc' = IF started + 1 = Len(WorkerOrder)
                 THEN "read_updates" ELSE mainpc
    /\ UNCHANGED <<cache, handlers, processed, last, event_queue, exc, iter,
                   lastIn, nextId, reqs, localVars>>

\* start_workers: one thread per resource type, in order.
StartWorker ==
    /\ mainpc = "start_workers"
    /\ started < Len(WorkerOrder)
    /\ started' = started + 1
    /\ pc' = [pc EXCEPT ![WorkerOrder[started + 1]] = "sync"]
    /\ mainpc' = IF started + 1 = Len(WorkerOrder)
                 THEN "read_updates" ELSE "start_workers"
    /\ UNCHANGED <<cache, handlers, processed, last, event_queue, exc, iter,
                   lastIn, nextId, reqs, localVars>>

\* read_updates, one turn of the loop: get, _process_update, task_done.
ReadUpdates ==
    /\ mainpc = "read_updates"
    /\ event_queue # <<>>
    /\ LET update == Head(event_queue)
           key == ResourceKey(update.resource)
           handler == get_handler(handlers, update.resource_type,
                                  update.event_type)
       IN  /\ event_queue' = QueueGet(event_queue)
           /\ processed' = Append(processed, update.id)
           /\ IF key = <<"KeyError">>
              THEN /\ last' = Last(update, None, "malformed")
                   /\ mainpc' = IF DispatcherCatches("KeyError")
                                THEN "read_updates" ELSE "exited"
                   /\ UNCHANGED cache
              ELSE IF handler = "KeyError"
              THEN /\ last' = Last(update, None, "nohandler")
                   /\ UNCHANGED <<cache, mainpc>>
              ELSE \E result \in HandlerResults, c \in HandlerEffects :
                     /\ cache' = c
                     /\ last' = Last(update, handler, result)
                     /\ mainpc' = IF result = "ok" \/ DispatcherCatches(result)
                                  THEN "read_updates" ELSE "exited"
    /\ UNCHANGED <<started, handlers, pc, exc, iter, lastIn, nextId, reqs,
                   localVars>>

\* ------------------------------------------------------------- workers
\* A worker thread that overwrites the cache.
WorkerFrameTouchesCache ==
    /\ cache' = <<>>
    /\ UNCHANGED <<mainpc, started, handlers, processed, last>>

\* _manage_resource and what it calls use self._event_queue and self.k8s_api
\* only: the state of the main thread is out of a worker's reach.
WorkerFrame == UNCHANGED mainVars

\* An exception of one worker that takes the watching workers down with it.
RaiseAll(r, e, input) ==
    /\ exc' = [exc EXCEPT ![r] = e]
    /\ lastIn' = [lastIn EXCEPT ![r] = input]
    /\ pc' = [s \in Resources |->
                IF s = r \/ pc[s] \in {"watch", "stream"}
                THEN "cooldown" ELSE pc[s]]
    /\ resources' = [resources EXCEPT ![r] = <<>>]
    /\ idx' = [idx EXCEPT ![r] = 0]
    /\ list_version' = [list_version EXCEPT ![r] = NoVersion]
    /\ resource_version' = [s \in Resources |->
                IF s = r \/ pc[s] \in {"watch", "stream"}
                THEN NoVersion ELSE resource_version[s]]
    /\ parsed' = [parsed EXCEPT ![r] = NoLine]
    /\ waited' = [waited EXCEPT ![r] = 0]
    /\ nwatch' = [nwatch EXCEPT ![r] = 0]
    /\ sent' = [sent EXCEPT ![r] = ApiGetQuery(NoVersion)]
    /\ enq_version' = [enq_version EXCEPT ![r] = NoVersion]

\* An exception leaves _sync_resources / _watch_resource: their locals are
\* gone and the worker is in the finally clause of _manage_resource.
Raise(r, e, input) ==
    /\ exc' = [exc EXCEPT ![r] = e]
    /\ lastIn' = [lastIn EXCEPT ![r] = input]
    /\ pc' = [pc EXCEPT ![r] = "cooldown"]
    /\ resources' = [resources EXCEPT ![r] = <<>>]
    /\ idx' = [idx EXCEPT ![r] = 0]
    /\ list_version' = [list_version EXCEPT ![r] = NoVersion]
    /\ resource_version' = [resource_version EXCEPT ![r] = NoVersion]
    /\ parsed' = [parsed EXCEPT ![r] = NoLine]
    /\ waited' = [waited EXCEPT ![r] = 0]
    /\ nwatch' = [nwatch EXCEPT ![r] = 0]
    /\ sent' = [sent EXCEPT ![r] = ApiGetQuery(NoVersion)]
    /\ enq_version' = [enq_version EXCEPT ![r] = NoVersion]

\* _sync_resources returns: _manage_resource calls _watch_resource with the
\* version it returned.
StartWatch(r, version) ==
    /\ pc' = [pc EXCEPT ![r] = "watch"]
    /\ resource_version' = [resource_version EXCEPT ![r] = WatchFrom(version)]

\* _sync_resources: the list request and the reading of its response.
SyncResources(r) ==
    /\ Alive
    /\ pc[r] = "sync"
    /\ reqs < MaxRequests
    /\ reqs' = reqs + 1
    /\ iter' = [iter EXCEPT ![r] = @ + 1]
    /\ \E resp \in ListResponses(r) :
         LET res == SyncResult(resp)
         IN  IF res # "ok"
             THEN Raise(r, res,
                        IF resp.kind # "response" THEN resp.kind
                        ELSE IF resp.status # 200 THEN "status" ELSE "nojson")
             ELSE /\ list_version' = [list_version EXCEPT ![r] = resp.rv]
                  /\ resources' = [resources EXCEPT ![r] = resp.items]
                  /\ idx' = [idx EXCEPT ![r] = 1]
                  /\ IF SyncDone(resp.items, 1)
                     THEN StartWatch(r, resp.rv)
                     ELSE /\ pc' = [pc EXCEPT ![r] = "sync_put"]
                          /\ UNCHANGED resource_version
                  /\ UNCHANGED <<exc, lastIn, parsed, waited, nwatch, sent,
                                 enq_version>>
    /\ WorkerFrame
    /\ UNCHANGED <<event_queue, nextId>>

\* _sync_resources: one put of the enqueue loop that finds room.
SyncPut(r) ==
    /\ Alive
    /\ pc[r] = "sync_put"
    /\ nextId <= MaxUpdates
    /\ NotFull(event_queue)
    /\ event_queue' = QueuePut(event_queue,
            Update(TYPE_ADDED, r, NextResource(resources[r], idx[r]), r, "list"))
    /\ nextId' = nextId + 1
    /\ waited' = [waited EXCEPT ![r] = 0]
    /\ idx' = [idx EXCEPT ![r] = @ + 1]
    /\ IF SyncDone(resources[r], idx[r] + 1)
       THEN StartWatch(r, list_version[r])
       ELSE UNCHANGED <<pc, resource_version>>
    /\ WorkerFrame
    /\ UNCHANGED <<resources, list_version, parsed, exc, iter, nwatch, sent,
                   enq_version, lastIn, reqs>>

\* Queue.put on a full queue: time passes while the put is blocked.
PutWait(r) ==
    /\ Alive
    /\ pc[r] \in {"sync_put", "watch_put"}
    /\ ~NotFull(event_queue)
    /\ ~TimedOut(waited[r])
    /\ waited' = [waited EXCEPT ![r] = @ + 1]
    /\ WorkerFrame
    /\ UNCHANGED <<event_queue, pc, resources, idx, list_version,
                   resource_version, parsed, exc, iter, nwatch, sent,
                   enq_version, lastIn, nextId, reqs>>

\* Queue.put on a queue still full when the timeout has run out: Full.
PutTimeout(r) ==
    /\ Alive
    /\ pc[r] \in {"sync_put", "watch_put"}
    /\ ~NotFull(event_queue)
    /\ TimedOut(waited[r])
    /\ Raise(r, "Full", "full")
    /\ WorkerFrame
    /\ UNCHANGED <<event_queue, iter, nextId, reqs>>

\* _watch_resource: the streaming request and its status check.
WatchRequest(r) ==
    /\ Alive
    /\ pc[r] = "watch"
    /\ reqs < MaxRequests
    /\ reqs' = reqs + 1
    /\ \E resp \in WatchResponses :
         IF WatchResult(resp) = "ok"
         THEN /\ pc' = [pc EXCEPT ![r] = "stream"]
              /\ nwatch' = [nwatch EXCEPT ![r] = @ + 1]
              /\ sent' = [sent EXCEPT ![r] = ApiGetQuery(resource_version[r])]
              /\ lastIn' = [lastIn EXCEPT ![r] = "none"]
              /\ UNCHANGED <<resources, idx, list_version, resource_version,
                             parsed, exc, waited, enq_version>>
         ELSE Raise(r, WatchResult(resp), resp)
    /\ WorkerFrame
    /\ UNCHANGED <<event_queue, iter, nextId>>

\* _watch_resource: the put of a streamed update that finds room, then the
\* reading of the new resourceVersion.
PutStreamed(r, ln) ==
    /\ nextId <= MaxUpdates
    /\ NotFull(event_queue)
    /\ event_queue' = QueuePut(event_queue,
            Update(ln.type, ln.object.kind, ln.object, r, "watch"))
    /\ nextId' = nextId + 1
    /\ LET new_ver == NewVersion(ln.object)
       IN  IF new_ver = NoVersion
           THEN Raise(r, "KeyError", "norv")
           ELSE /\ resource_version' = [resource_version EXCEPT ![r] = new_ver]
                /\ enq_version' = [enq_version EXCEPT ![r] = ln.object.rv]
                /\ pc' = [pc EXCEPT ![r] = "stream"]
                /\ parsed' = [parsed EXCEPT ![r] = NoLine]
                /\ waited' = [waited EXCEPT ![r] = 0]
                /\ UNCHANGED <<resources, idx, list_version, exc, nwatch, sent,
                               lastIn>>

\* _watch_resource: one line of the stream; its put goes through when the
\* queue has room and blocks otherwise.
ReadLine(r) ==
    /\ Alive
    /\ pc[r] = "stream"
    /\ \E ln \in Lines(r, resource_version[r]) :
         LET res == LineResult(ln)
         IN  IF res = "skip"
             THEN UNCHANGED <<event_queue, nextId, pc, exc, lastIn, localVars>>
             ELSE IF res = "put"
             THEN IF NotFull(event_queue)
                  THEN PutStreamed(r, ln)
                  ELSE /\ pc' = [pc EXCEPT ![r] = "watch_put"]
                       /\ parsed' = [parsed EXCEPT ![r] = ln]
                       /\ UNCHANGED <<event_queue, nextId, exc, lastIn,
                                      resources, idx, list_version,
                                      resource_version, waited, nwatch, sent,
                                      enq_version>>
             ELSE /\ Raise(r, res,
                           IF ln.tag = "garbage" THEN "garbage"
                           ELSE IF ln.type = None THEN "notype"
                           ELSE IF ln.type = TYPE_ERROR THEN "error"
                           ELSE IF ~ln.hasObject THEN "noobject" ELSE "nokind")
                  /\ UNCHANGED <<event_queue, nextId>>
    /\ WorkerFrame
    /\ UNCHANGED <<iter, reqs>>

\* _watch_resource: a blocked put of a streamed update finds room.
WatchPut(r) ==
    /\ Alive
    /\ pc[r] = "watch_put"
    /\ PutStreamed(r, parsed[r])
    /\ WorkerFrame
    /\ UNCHANGED <<iter, reqs>>

\* _watch_resource: the connection closes and iter_lines() is exhausted.
StreamEnd(r) ==
    /\ Alive
    /\ pc[r] = "stream"
    /\ pc' = [pc EXCEPT ![r] = AfterStreamEnd]
    /\ lastIn' = [lastIn EXCEPT ![r] = "eof"]
    /\ WorkerFrame
    /\ UNCHANGED <<event_queue, exc, iter, nextId, reqs, localVars>>

\* _watch_resource: the connection breaks while the stream is read.
StreamError(r) ==
    /\ Alive
    /\ pc[r] = "stream"
    /\ Raise(r, "ConnectionError", "ConnectionError")
    /\ WorkerFrame
    /\ UNCHANGED <<event_queue, iter, nextId, reqs>>

\* _manage_resource: the finally clause sleeps; then the loop goes round,
\* or an exception no except clause names ends the thread.
Restart(r) ==
    /\ Alive
    /\ pc[r] = "cooldown"
    /\ pc' = [pc EXCEPT ![r] = AfterCooldown(exc[r])]
    /\ IF AfterCooldown(exc[r]) = "dead"
       THEN UNCHANGED <<exc, lastIn>>
       ELSE /\ exc' = [exc EXCEPT ![r] = "none"]
            /\ lastIn' = [lastIn EXCEPT ![r] = "none"]
    /\ WorkerFrame
    /\ UNCHANGED <<event_queue, iter, nextId, reqs, localVars>>

Next ==
    \/ SetTier
    \/ LoadCache
    \/ StartWorker
    \/ ReadUpdates
    \/ \E r \in Resources : SyncResources(r)
    \/ \E r \in Resources : SyncPut(r)
    \/ \E r \in Resources : PutWait(r)
    \/ \E r \in Resources : PutTimeout(r)
    \/ \E r \in Resources : WatchRequest(r)
    \/ \E r \in Resources : ReadLine(r)
    \/ \E r \in Resources : WatchPut(r)
    \/ \E r \in Resources : StreamEnd(r)
    \/ \E r \in Resources : StreamError(r)
    \/ \E r \in Resources : Restart(r)

Spec == Init /\ [][Next]_vars

\* ---------------------------------------------------------- properties
\* The positions of the queue holding updates worker r enqueued in iteration
\* i during the given phase.
Entries(r, i, phase) ==
    {j \in 1..Len(event_queue) :
        /\ event_queue[j].src = r
        /\ event_queue[j].iter = i
        /\ event_queue[j].phase = phase}

\* A step of the dispatcher: one more update handed to _process_update.
Dispatched == Len(processed') = Len(processed) + 1

\* Worker r is in _watch_resource.
Watching(r) == pc[r] \in {"watch", "stream", "watch_put"}

\* C1: whenever the handler of a dequeued update raises an error, of any
\* kind, the dispatcher loop is still running afterwards.
C1_HandlerErrorsIsolated ==
    last.outcome \in {"KeyError", "Error"} => mainpc = "read_updates"

\* C2: a worker whose step failed with a connection error, an HTTP error, a
\* non-200 status or a queue-full timeout is in the cooldown with an
\* exception _manage_resource catches, so that it re-enters Resync.
C2_FailuresRestart ==
    \A r \in Resources :
        lastIn[r] \in {"ConnectionError", "HTTPError", "status", "full"} =>
            /\ pc[r] = "cooldown"
            /\ exc[r] \in CaughtByManage

\* C3: a worker whose watch stream delivered a line that is not JSON, or an
\* envelope without type, object or object.metadata.resourceVersion, is in
\* the cooldown with an exception _manage_resource catches.
C3_ParseFailuresRestart ==
    \A r \in Resources :
        lastIn[r] \in {"garbage", "notype", "noobject", "norv"} =>
            /\ pc[r] = "cooldown"
            /\ exc[r] \in CaughtByManage

\* C4: within one iteration the listed objects are enqueued as ADDED updates
\* of the worker's resource type, in list order, all of them before the
\* watch request; so the dispatcher gets a streamed update of an iteration
\* only when no listed object of that iteration is still to come.
C4_ListOrder ==
    \A r \in Resources :
        /\ Watching(r) => idx[r] = Len(resources[r]) + 1
        /\ \A j \in Entries(r, iter[r], "list") :
             /\ event_queue[j].event_type = TYPE_ADDED
             /\ event_queue[j].resource_type = r
             /\ \A l \in Entries(r, iter[r], "list") :
                    j < l => event_queue[j].k < event_queue[l].k
             /\ (pc[r] = "sync_put" \/ Watching(r)) =>
                    /\ event_queue[j].k < idx[r]
                    /\ event_queue[j].resource = resources[r][event_queue[j].k]
        /\ \A i \in 1..iter[r] :
             \A j \in Entries(r, i, "list"), l \in Entries(r, i, "watch") : j < l

C4_ListDeliveredFirst ==
    Dispatched =>
        LET u == Head(event_queue)
        IN  u.phase = "watch" =>
              /\ Entries(u.src, u.iter, "list") = {}
              /\ iter[u.src] = u.iter => pc[u.src] # "sync_put"

C4_ListBeforeWatch == []C4_ListOrder /\ [][C4_ListDeliveredFirst]_vars

C4_Witness ==
    \E r \in Resources :
        /\ Len(resources[r]) >= 2
        /\ enq_version[r] # NoVersion
        /\ Len(processed) >= 3

\* C5: every watch request carries the latest cursor of its iteration: the
\* version of the list response when no streamed event was enqueued yet, the
\* resourceVersion of the last enqueued streamed event otherwise; and within
\* an iteration the cursor never goes back.
C5_Cursor(r) ==
    IF enq_version[r] # NoVersion THEN enq_version[r] ELSE list_version[r]

C5_RequestCarriesCursor ==
    \A r \in Resources :
        /\ nwatch'[r] = nwatch[r] + 1 =>
             /\ sent'[r].hasVersion = (C5_Cursor(r) # NoVersion)
             /\ sent'[r].version = C5_Cursor(r)
             /\ nwatch[r] = 0 => sent'[r].version = list_version[r]
        /\ (iter'[r] = iter[r] /\ Watching(r) /\ pc'[r] \in {"watch", "stream", "watch_put"}) =>
             resource_version'[r] >= resource_version[r]

C5_WatchFromLatestCursor == [][C5_RequestCarriesCursor]_vars

C5_Witness ==
    \E r \in Resources :
        /\ nwatch[r] = 2
        /\ sent[r].hasVersion
        /\ sent[r].version = enq_version[r]
        /\ sent[r].version > list_version[r]

\* C6 as stated: once a watch stream has ended with the connection closed,
\* the worker is in the cooldown and has issued no second watch request in
\* the iteration.
C6_StreamEndExitsWatch ==
    \A r \in Resources :
        /\ lastIn[r] = "eof" => pc[r] = "cooldown"
        /\ nwatch[r] <= 1

\* C6 as amended: once a watch stream has ended with the connection closed,
\* the worker stays in Watch: with no exception, no cooldown and no new list
\* request, its next step is a watch request of the same iteration that
\* carries its current cursor.
C6_StreamEndState ==
    \A r \in Resources :
        lastIn[r] = "eof" =>
            /\ pc[r] = "watch"
            /\ exc[r] = "none"
            /\ nwatch[r] >= 1

C6_StreamEndStep ==
    \A r \in Resources :
        (lastIn[r] = "eof" /\ pc'[r] # pc[r]) =>
            /\ iter'[r] = iter[r]
            /\ reqs' = reqs + 1
            /\ pc'[r] = "stream" =>
                 /\ nwatch'[r] = nwatch[r] + 1
                 /\ sent'[r] = ApiGetQuery(resource_version[r])

C6_StreamEndRewatches == []C6_StreamEndState /\ [][C6_StreamEndStep]_vars

C6_Witness ==
    \E r \in Resources : nwatch[r] = 2 /\ pc[r] = "stream" /\ iter[r] = 1

\* C7: the queue never holds more than MAX_QUEUE_SIZE updates; a put fails
\* with Full only on a queue that is full and has been for the whole
\* timeout, and the failure leaves the queue as it was.
C7_Bounded == Len(event_queue) <= MAX_QUEUE_SIZE

C7_FullStep ==
    \A r \in Resources :
        (exc'[r] = "Full" /\ exc[r] # "Full") =>
            /\ event_queue' = event_queue
            /\ Len(event_queue) = MAX_QUEUE_SIZE
            /\ waited[r] = QUEUE_PUT_TIMEOUT
            /\ pc[r] \in {"sync_put", "watch_put"}

C7_QueueFull == []C7_Bounded /\ [][C7_FullStep]_vars

C7_Witness ==
    \E r \in Resources :
        /\ exc[r] = "Full"
        /\ Len(event_queue) = MAX_QUEUE_SIZE

\* C8: when the dispatcher has stopped, no update for an object of a
\* worker's first list response is left undelivered in the queue.
C8_ListedDelivered ==
    mainpc = "exited" =>
        \A j \in 1..Len(event_queue) :
            ~(event_queue[j].phase = "list" /\ event_queue[j].iter = 1)

\* C9: the updates handed to _process_update are the enqueued updates, each
\* once, in the order of their enqueue, and the queue holds exactly those not
\* yet handed over, whatever became of the ones before.
C9_ExactlyOnce ==
    /\ processed = [j \in 1..Len(processed) |-> j]
    /\ \A j \in 1..Len(event_queue) : event_queue[j].id = Len(processed) + j
    /\ nextId = Len(processed) + Len(event_queue) + 1

C9_Witness ==
    /\ Len(processed) >= 2
    /\ last.outcome \in {"KeyError", "malformed"}
    /\ event_queue # <<>>

\* C10: for every resource type, MODIFIED resolves to the handler registered
\* for ADDED while ADDED and DELETED resolve under their own kind, and the
\* handler a well-formed update of a registered type is given to is the one
\* so resolved.
C10_Normalization ==
    /\ \A T \in Resources :
         /\ get_handler(handlers, T, TYPE_MODIFIED) = handlers[<<T, TYPE_ADDED>>]
         /\ get_handler(handlers, T, TYPE_ADDED) = handlers[<<T, TYPE_ADDED>>]
         /\ get_handler(handlers, T, TYPE_DELETED) = handlers[<<T, TYPE_DELETED>>]
    /\ (last.resource_type \in Resources /\ last.outcome # "malformed") =>
         /\ last.event_type = TYPE_MODIFIED =>
              last.handler = handlers[<<last.resource_type, TYPE_ADDED>>]
         /\ last.event_type \in {TYPE_ADDED, TYPE_DELETED} =>
              last.handler = handlers[<<last.resource_type, last.event_type>>]

C10_Witness ==
    /\ last.event_type = TYPE_MODIFIED
    /\ last.handler \in {handlers[<<T, TYPE_ADDED>>] : T \in Resources}

\* The (resource type, normalized event kind) pair of update u has no
\* registered handler.
Unregistered(u) ==
    <<u.resource_type,
      IF u.event_type = TYPE_MODIFIED THEN TYPE_ADDED ELSE u.event_type>>
        \notin DOMAIN handlers

\* The resource of update u lacks metadata or metadata.name.
Malformed(u) == ~u.resource.hasMeta \/ u.resource.name = None

C11_NoHandlerState ==
    last.outcome = "nohandler" =>
        /\ last.handler = None
        /\ mainpc = "read_updates"
        /\ event_queue # <<>> => ENABLED ReadUpdates

C11_NoHandlerStep ==
    Dispatched =>
        LET u == Head(event_queue)
        IN  Unregistered(u) =>
              /\ last'.handler = None
              /\ last'.outcome \in {"nohandler", "malformed"}
              /\ event_queue' = Tail(event_queue)
              /\ mainpc' = "read_updates"

\* C11: a dequeued update whose (resource type, normalized event kind) pair
\* has no registered handler is taken off the queue without any handler being
\* called, and the dispatcher loop keeps running, ready for the next update.
C11_NoHandlerDropped == []C11_NoHandlerState /\ [][C11_NoHandlerStep]_vars

C11_Witness ==
    /\ last.outcome = "nohandler"
    /\ last.resource_type \notin Resources
    /\ event_queue # <<>>

C12_MalformedState ==
    last.outcome = "malformed" =>
        /\ last.handler = None
        /\ mainpc = "read_updates"
        /\ event_queue # <<>> => ENABLED ReadUpdates

C12_MalformedStep ==
    Dispatched =>
        LET u == Head(event_queue)
        IN  /\ Malformed(u) =>
                /\ last'.handler = None
                /\ last'.outcome = "malformed"
                /\ event_queue' = Tail(event_queue)
                /\ mainpc' = "read_updates"
            /\ (~Malformed(u) /\ u.resource.namespace = None
                    /\ ~Unregistered(u)) =>
                /\ last'.handler = handlers[<<u.resource_type,
                        IF u.event_type = TYPE_MODIFIED THEN TYPE_ADDED
                        ELSE u.event_type>>]
                /\ last'.key = <<None, u.resource.name>>
                /\ last'.outcome \in HandlerResults

\* C12: a dequeued update whose resource lacks metadata or metadata.name is
\* taken off the queue without any handler being called and the dispatcher
\* loop keeps running, ready for the next update; an update that lacks only
\* metadata.namespace is given to its handler with the key (None, name).
C12_MalformedDropped == []C12_MalformedState /\ [][C12_MalformedStep]_vars

C12_Witness ==
    /\ last.outcome = "malformed"
    /\ last.resource_type = RESOURCE_TYPE_NAMESPACE
    /\ Len(processed) >= 2
    /\ event_queue # <<>>

C13_ErrorState ==
    /\ \A j \in 1..Len(event_queue) : event_queue[j].event_type # TYPE_ERROR
    /\ last.event_type # TYPE_ERROR
    /\ \A r \in Resources :
         lastIn[r] = "error" =>
            /\ pc[r] = "cooldown"
            /\ exc[r] = "KubernetesApiError"

C13_ErrorStep ==
    \A r \in Resources :
        /\ (lastIn'[r] = "error" /\ lastIn[r] # "error") =>
              /\ pc[r] = "stream"
              /\ event_queue' = event_queue
              /\ nextId' = nextId
              /\ ~(resource_version'[r] > resource_version[r])
        /\ (lastIn[r] = "error" /\ pc'[r] # pc[r]) =>
              /\ pc'[r] = "sync"
              /\ event_queue' = event_queue
              /\ iter'[r] = iter[r]

\* C13: an envelope of type Error on a watch stream enqueues nothing and
\* advances no cursor; the worker leaves the stream with KubernetesApiError,
\* cools down and goes back to the list request; no update of event type
\* Error is ever on the queue or given to the dispatcher.
C13_ErrorEnvelope == []C13_ErrorState /\ [][C13_ErrorStep]_vars

C13_Witness ==
    \E r \in Resources :
        /\ lastIn[r] = "error"
        /\ \E j \in 1..Len(event_queue) :
              event_queue[j].src = r /\ event_queue[j].phase = "watch"

\* load_cache has returned.
Seeded == mainpc \in {"start_workers", "read_updates", "exited"}

\* C14: load_cache has returned before any worker thread is started, before
\* any request is sent or update enqueued, and before the dispatcher takes
\* its first update.
C14_SeedFirst ==
    (\/ started > 0
     \/ \E r \in Resources : pc[r] # "idle" \/ iter[r] > 0
     \/ reqs > 0
     \/ nextId > 1
     \/ event_queue # <<>>
     \/ processed # <<>>
     \/ last # NoLast) => Seeded

C14_Witness ==
    /\ Seeded
    /\ started = Len(WorkerOrder)
    /\ cache # <<>>
    /\ last.outcome = "ok"
    /\ event_queue # <<>>

\* A step of a worker thread, or the start of one.
WorkerStep ==
    <<pc, exc, iter, lastIn, nextId, reqs, localVars>>' #
        <<pc, exc, iter, lastIn, nextId, reqs, localVars>>

C15_CacheStep ==
    /\ cache' # cache =>
          \/ mainpc = "load_cache" /\ mainpc' = "start_workers"
          \/ /\ mainpc = "read_updates"
             /\ Dispatched
             /\ last'.handler # None
             /\ ~WorkerStep
    /\ WorkerStep => cache' = cache
    /\ Len(processed') <= Len(processed) + 1

\* C15: once seeded, the cache changes only in a dispatcher step that calls
\* a handler; no step of a worker thread (list, watch, put, failure,
\* restart) changes it, and a step hands at most one update to a handler.
C15_CacheOwnedByDispatcher == [][C15_CacheStep]_vars

C15_Witness ==
    /\ cache # <<>>
    /\ last.handler # None
    /\ \E r \in Resources : pc[r] = "cooldown" /\ exc[r] = "Full"
    /\ \E r \in Resources : pc[r] = "stream"

\* C16: every update on the queue carries, as its resource_type, the resource
\* type of the worker that enqueued it.
C16_ResourceTypeIsReflector ==
    \A j \in 1..Len(event_queue) :
        event_queue[j].resource_type = event_queue[j].src

C17_QueueOrder ==
    /\ \A j, l \in 1..Len(event_queue) :
          j < l => event_queue[j].id < event_queue[l].id
    /\ \A j \in 1..Len(processed), l \in 1..Len(event_queue) :
          processed[j] < event_queue[l].id
    /\ \A j, l \in 1..Len(processed) : j < l => processed[j] < processed[l]
    /\ Len(processed) + Len(event_queue) = nextId - 1

C17_QueueStep ==
    /\ nextId' # nextId =>
          /\ nextId' = nextId + 1
          /\ Len(event_queue') = Len(event_queue) + 1
          /\ \E j \in 1..Len(event_queue') : event_queue'[j].id = nextId
          /\ processed' = processed
    /\ Dispatched =>
          /\ processed' = Append(processed, Head(event_queue).id)
          /\ \A j \in 1..Len(event_queue) :
                Head(event_queue).id <= event_queue[j].id
          /\ Len(event_queue') = Len(event_queue) - 1
          /\ nextId' = nextId

\* C17: updates are numbered as their enqueue completes; the dispatcher
\* always takes the lowest-numbered update of the queue, so updates are
\* processed in the order of their enqueue, those of one worker in that
\* worker's order, and each enqueued update is one queue entry, never merged
\* with another.
C17_FifoOrder == []C17_QueueOrder /\ [][C17_QueueStep]_vars

C17_Witness ==
    /\ Len(processed) >= 1
    /\ Len(event_queue) = 2
    /\ event_queue[1].src # event_queue[2].src

C18_ResyncFullStep ==
    \A r \in Resources :
        /\ (pc[r] = "sync_put" /\ exc'[r] = "Full") =>
              /\ idx[r] <= Len(resources[r])
              /\ event_queue' = event_queue
              /\ Cardinality(Entries(r, iter[r], "list")) <= idx[r] - 1
              /\ nwatch[r] = 0
              /\ pc'[r] = "cooldown"
        /\ (exc[r] = "Full" /\ pc'[r] # pc[r]) =>
              /\ pc[r] = "cooldown"
              /\ pc'[r] = "sync"
              /\ event_queue' = event_queue
        /\ (pc[r] = "sync" /\ pc'[r] = "sync_put") =>
              /\ iter'[r] = iter[r] + 1
              /\ reqs' = reqs + 1
              /\ idx'[r] = 1
              /\ event_queue' = event_queue
        /\ (pc[r] = "sync_put" /\ idx'[r] = idx[r] + 1) =>
              LET u == event_queue'[Len(event_queue')]
              IN  /\ u.src = r /\ u.iter = iter[r] /\ u.k = idx[r]
                  /\ u.event_type = TYPE_ADDED
                  /\ u.resource = resources[r][idx[r]]
                  /\ SubSeq(event_queue', 1, Len(event_queue)) = event_queue

\* C18: a put of the enqueue loop of _sync_resources that times out with Full
\* leaves the updates already enqueued on the queue; the worker has issued no
\* watch request in that iteration and issues none: it cools down and goes
\* back to the list request, whose objects it enqueues from the first one
\* on, so that an object can be on the queue as ADDED twice.
C18_FullInResync == [][C18_ResyncFullStep]_vars

C18_Witness ==
    \E r \in Resources :
        /\ exc[r] = "Full"
        /\ pc[r] = "cooldown"
        /\ \E j, l \in 1..Len(event_queue) :
              /\ j < l
              /\ event_queue[j].src = r /\ event_queue[l].src = r
              /\ event_queue[j].phase = "list" /\ event_queue[l].phase = "list"
              /\ event_queue[j].iter < event_queue[l].iter
              /\ event_queue[j].k = 1 /\ event_queue[l].k = 1
              /\ event_queue[j].resource = event_queue[l].resource

C19_SkipStep ==
    Dispatched =>
        LET u == Head(event_queue)
        IN  (Malformed(u) \/ Unregistered(u)) =>
              /\ cache' = cache
              /\ handlers' = handlers

\* C19: the dispatcher step for an update that lacks metadata.name, or whose
\* (resource type, event kind) pair has no handler, leaves the cache and the
\* handler table as they were.
C19_SkipLeavesCache == [][C19_SkipStep]_vars

C19_Witness ==
    /\ last.outcome \in {"malformed", "nohandler"}
    /\ last.handler = None
    /\ cache # <<>>
    /\ handlers = InitHandlers

C20_FailureStep ==
    \A r \in Resources :
        (\/ pc'[r] = "cooldown" /\ pc[r] # "cooldown"
         \/ pc[r] = "cooldown" /\ pc'[r] # "cooldown") =>
            /\ \A s \in Resources \ {r} :
                  /\ pc'[s] = pc[s]
                  /\ resource_version'[s] = resource_version[s]
                  /\ list_version'[s] = list_version[s]
                  /\ iter'[s] = iter[s]
            /\ Len(event_queue') >= Len(event_queue)
            /\ SubSeq(event_queue', 1, Len(event_queue)) = event_queue

\* C20: the step in which a worker fails, and the step in which it leaves its
\* cooldown, change neither the position nor the cursor of any other worker
\* and take no update off the queue, the failing worker's own included.
C20_FailureIsLocal == [][C20_FailureStep]_vars

C20_Witness ==
    \E r, s \in Resources :
        /\ r # s
        /\ pc[r] = "cooldown"
        /\ pc[s] = "stream"
        /\ resource_version[s] # NoVersion
        /\ \E j \in 1..Len(event_queue) : event_queue[j].src = r

====
